---- MODULE Spec2Model ----
(***************************************************************************)
(* A model of kerncraft's Kernel class (src/kerncraft/kernel.py): the      *)
(* analysis of a loop kernel given as a pycparser tree (__init__,          *)
(* _process_code, _p_for, _p_assignment, _p_sources, _get_offsets) and     *)
(* the synthesis of the benchmark program (as_code and the three tree      *)
(* transformations it applies).                                            *)
(*                                                                         *)
(* Tree nodes are records whose field "node" is the pycparser class name   *)
(* and whose other fields are the attributes of that class.  Python's      *)
(* None is the record None.  A Python exception is a string naming it; a   *)
(* function that can raise returns a record with a field exc.              *)
(***************************************************************************)
EXTENDS Integers, Sequences, FiniteSets, TLC

(***************************************************************************)
(* Bounds of the model.                                                    *)
(***************************************************************************)
\* largest number of dimensions of an array and of subscripts of a reference
MaxRank == 3
\* largest integer a constant is bound to
MaxValue == 2

(***************************************************************************)
(* pycparser c_ast node constructors.  A node that is absent is None; a    *)
(* name that is absent (declname, Typename.name) is NoName.                *)
(***************************************************************************)
None == [node |-> "None"]

NoName == "None"

ID(name) == [node |-> "ID", name |-> name]

Constant(type, value) == [node |-> "Constant", type |-> type, value |-> value]

BinaryOp(op, left, right) ==
    [node |-> "BinaryOp", op |-> op, left |-> left, right |-> right]

UnaryOp(op, expr) == [node |-> "UnaryOp", op |-> op, expr |-> expr]

ArrayRef(name, subscript) ==
    [node |-> "ArrayRef", name |-> name, subscript |-> subscript]

Assignment(op, lvalue, rvalue) ==
    [node |-> "Assignment", op |-> op, lvalue |-> lvalue, rvalue |-> rvalue]

IdentifierType(names) == [node |-> "IdentifierType", names |-> names]

TypeDecl(declname, quals, type) ==
    [node |-> "TypeDecl", declname |-> declname, quals |-> quals, type |-> type]

ArrayDecl(type, dim) == [node |-> "ArrayDecl", type |-> type, dim |-> dim]

PtrDecl(quals, type) == [node |-> "PtrDecl", quals |-> quals, type |-> type]

Decl(name, quals, storage, type, init) ==
    [node |-> "Decl", name |-> name, quals |-> quals, storage |-> storage,
     type |-> type, init |-> init]

DeclList(decls) == [node |-> "DeclList", decls |-> decls]

For(init, cond, next, stmt) ==
    [node |-> "For", init |-> init, cond |-> cond, next |-> next, stmt |-> stmt]

Compound(block_items) == [node |-> "Compound", block_items |-> block_items]

FuncCall(name, args) == [node |-> "FuncCall", name |-> name, args |-> args]

ExprList(exprs) == [node |-> "ExprList", exprs |-> exprs]

If(cond, iftrue, iffalse) ==
    [node |-> "If", cond |-> cond, iftrue |-> iftrue, iffalse |-> iffalse]

Typename(name, quals, type) ==
    [node |-> "Typename", name |-> name, quals |-> quals, type |-> type]

ParamList(params) == [node |-> "ParamList", params |-> params]

FuncDecl(args, type) == [node |-> "FuncDecl", args |-> args, type |-> type]

FuncDef(decl, param_decls, body) ==
    [node |-> "FuncDef", decl |-> decl, param_decls |-> param_decls, body |-> body]

FileAST(ext) == [node |-> "FileAST", ext |-> ext]

\* type(x) is c_ast.<cls>
IsA(x, cls) == x.node = cls

\* hasattr(x, f)
hasattr(x, f) == f \in DOMAIN x

(***************************************************************************)
(* Python built-ins used by the analysis.                                  *)
(***************************************************************************)
\* the integer literals of the kernels, as pycparser keeps them (strings)
IntLiterals == [n \in 0 .. 4 |-> ToString(n)]

\* int(s): the number a decimal literal denotes; ValueError for another string
IsIntLiteral(s) == \E n \in DOMAIN IntLiterals : IntLiterals[n] = s

int(s) == CHOOSE n \in DOMAIN IntLiterals : IntLiterals[n] = s

\* x in '+-' and x in '<' for strings: x is a substring
InPlusMinus(x) == x \in {"", "+", "-", "+-"}

InLessThan(x) == x \in {"", "<"}

\* the operator left as it is
Unstripped(s) == s

\* s.strip('=') for the assignment operators of C
StripEq(s) ==
    CASE s = "=" -> ""
      [] s = "+=" -> "+"
      [] s = "-=" -> "-"
      [] s = "*=" -> "*"
      [] s = "/=" -> "/"
      [] s = "%=" -> "%"
      [] OTHER -> s

\* d.get(k, 0) and d[k] = v for a dict d modelled as a function
DictGet(d, k, default) == IF k \in DOMAIN d THEN d[k] ELSE default

DictSet(d, k, v) == [x \in DOMAIN d \cup {k} |-> IF x = k THEN v ELSE d[x]]

\* d.setdefault(k, [])
SetDefault(d, k) == IF k \in DOMAIN d THEN d ELSE DictSet(d, k, <<>>)

\* d.setdefault(k, []) followed by d[k].append(v)
DictAppend(d, k, v) == DictSet(d, k, Append(DictGet(d, k, <<>>), v))

EmptyDict == <<>>

(***************************************************************************)
(* sympy expressions: Symbol, Integer, and sums and products of them.      *)
(* Integers are folded as sympy folds them; a difference l - r is the sum  *)
(* of l and (-1)*r.                                                        *)
(***************************************************************************)
Symbol(name) == [sym |-> "Symbol", name |-> name]

Integer(value) == [sym |-> "Integer", value |-> value]

SymAdd(l, r) ==
    IF l.sym = "Integer" /\ r.sym = "Integer" THEN Integer(l.value + r.value)
    ELSE [sym |-> "Add", left |-> l, right |-> r]

SymMul(l, r) ==
    IF l.sym = "Integer" /\ r.sym = "Integer" THEN Integer(l.value * r.value)
    ELSE [sym |-> "Mul", left |-> l, right |-> r]

SymSub(l, r) == SymAdd(l, SymMul(Integer(-1), r))

\* the value bound to name in the constants, a list of (name, value)
IsBound(constants, name) == \E n \in 1 .. Len(constants) : constants[n][1] = name

ValueOf(constants, name) ==
    constants[CHOOSE n \in 1 .. Len(constants) : constants[n][1] = name][2]

\* expr.subs(constants): bound symbols replaced by their values, others kept
RECURSIVE Subs(_, _)
Subs(expr, constants) ==
    CASE expr.sym = "Symbol" ->
           IF IsBound(constants, expr.name) THEN Integer(ValueOf(constants, expr.name))
           ELSE expr
      [] expr.sym = "Integer" -> expr
      [] expr.sym = "Add" -> SymAdd(Subs(expr.left, constants), Subs(expr.right, constants))
      [] expr.sym = "Mul" -> SymMul(Subs(expr.left, constants), Subs(expr.right, constants))

\* Kernel.subs_consts(expr)
subs_consts(expr, constants) ==
    IF expr.sym = "Integer" THEN expr ELSE Subs(expr, constants)

\* self._constants[sympy.var(name)] = value: a new key is added last, a known
\* key keeps its place
SetItem(constants, name, value) ==
    IF IsBound(constants, name)
    THEN [n \in 1 .. Len(constants) |->
             IF constants[n][1] = name THEN <<name, value>> ELSE constants[n]]
    ELSE Append(constants, <<name, value>>)

\* the result of a call that returns val, and of one that raises exc
Return(val) == [exc |-> "none", val |-> val]

Raise(exc) == [exc |-> exc, val |-> None]

RECURSIVE conv_ast_to_sym(_)
conv_ast_to_sym(math_ast) ==
    IF IsA(math_ast, "ID") THEN Return(Symbol(math_ast.name))
    ELSE IF IsA(math_ast, "Constant") THEN
        IF IsIntLiteral(math_ast.value) THEN Return(Integer(int(math_ast.value)))
        ELSE Raise("ValueError")
    ELSE IF ~hasattr(math_ast, "op") THEN Raise("AttributeError")
    ELSE IF math_ast.op \notin {"*", "+", "-"} THEN Raise("KeyError")
    ELSE IF ~hasattr(math_ast, "left") THEN Raise("AttributeError")
    ELSE LET l == conv_ast_to_sym(math_ast.left) IN
         IF l.exc # "none" THEN l
         ELSE IF ~hasattr(math_ast, "right") THEN Raise("AttributeError")
         ELSE LET r == conv_ast_to_sym(math_ast.right) IN
              IF r.exc # "none" THEN r
              ELSE CASE math_ast.op = "*" -> Return(SymMul(l.val, r.val))
                     [] math_ast.op = "+" -> Return(SymAdd(l.val, r.val))
                     [] math_ast.op = "-" -> Return(SymSub(l.val, r.val))

(***************************************************************************)
(* Offsets of an array reference.                                          *)
(***************************************************************************)
\* [l[0] for l in self._loop_stack]
LoopCounters(loop_stack) == {loop_stack[n][1] : n \in DOMAIN loop_stack}

\* a list left as it is
Unreversed(s) == s

\* list.reverse()
Reverse(s) == [n \in 1 .. Len(s) |-> s[Len(s) + 1 - n]]

\* the offset descriptor of one subscript (lines 236-254), after the asserts
\* on the kinds of aref.name and aref.subscript
SubscriptOffset(subscript, loop_stack) ==
    IF IsA(subscript, "BinaryOp") THEN
        IF ~InPlusMinus(subscript.op) THEN
            Raise("binary operations in array subscript must by + or -")
        ELSE IF ~(IsA(subscript.left, "ID") /\ IsA(subscript.right, "Constant")) THEN
            Raise("binary operation in array subscript may only have form variable +- constant")
        ELSE IF subscript.left.name \notin LoopCounters(loop_stack) THEN
            Raise("varialbes used in array indices has to be a loop counter")
        ELSE IF ~IsIntLiteral(subscript.right.value) THEN Raise("ValueError")
        ELSE LET sign == IF subscript.op = "+" THEN 1 ELSE -1
                 offset == sign * int(subscript.right.value)
             IN  Return(<<"rel", subscript.left.name, offset>>)
    ELSE IF IsA(subscript, "ID") THEN
        IF subscript.name \notin LoopCounters(loop_stack) THEN
            Raise("varialbes used in array indices has to be a loop counter")
        ELSE Return(<<"rel", subscript.name, 0>>)
    ELSE IF ~IsIntLiteral(subscript.value) THEN Raise("ValueError")
    ELSE Return(<<"abs", int(subscript.value)>>)

RECURSIVE _get_offsets(_, _, _)
_get_offsets(aref, dim, loop_stack) ==
    IF aref.name.node \notin {"ArrayRef", "ID"} THEN
        Raise("array references must only be used with variables or other array references")
    ELSE IF aref.subscript.node \notin {"ID", "Constant", "BinaryOp"} THEN
        Raise("array subscript must only contain variables or binary operations")
    ELSE LET idx == SubscriptOffset(aref.subscript, loop_stack) IN
         IF idx.exc # "none" THEN idx
         ELSE IF IsA(aref.name, "ArrayRef") THEN
             LET rest == _get_offsets(aref.name, dim + 1, loop_stack) IN
             IF rest.exc # "none" THEN rest
             ELSE LET idxs == <<idx.val>> \o rest.val IN
                  Return(IF dim = 0 THEN Reverse(idxs) ELSE idxs)
         ELSE Return(<<idx.val>>)

RECURSIVE _get_basename(_)
_get_basename(aref) ==
    IF IsA(aref.name, "ArrayRef") THEN _get_basename(aref.name)
    ELSE IF hasattr(aref.name, "name") THEN Return(aref.name.name)
    ELSE Raise("AttributeError")

(***************************************************************************)
(* Kernel.set_variable and the declaration loop of _process_code.          *)
(***************************************************************************)
\* Kernel.datatypes_size
datatypes_size == [double |-> 8, float |-> 4]

\* a Python tuple, as opposed to None
Tuple(items) == [node |-> "tuple", items |-> items]

\* set_variable without the assert of line 161
set_variable_any(self, name, type_, size) ==
    IF type_ \notin DOMAIN datatypes_size THEN
        [self EXCEPT !.exc = "only float and double variables are supported"]
    ELSE IF size.node \notin {"tuple", "None"} THEN
        [self EXCEPT !.datatype = type_, !.exc = "size has to be defined as tuple"]
    ELSE [self EXCEPT !.datatype = type_,
                      !.variables = DictSet(self.variables, name,
                                            [type_ |-> type_, size |-> size])]

\* the fields set_variable reads and writes: self.datatype, self._variables
set_variable(self, name, type_, size) ==
    IF type_ \notin DOMAIN datatypes_size THEN
        [self EXCEPT !.exc = "only float and double variables are supported"]
    ELSE IF self.datatype # "None" /\ type_ # self.datatype THEN
        [self EXCEPT !.exc = "mixing of datatypes within a kernel is not supported."]
    ELSE IF size.node \notin {"tuple", "None"} THEN
        [self EXCEPT !.datatype = type_, !.exc = "size has to be defined as tuple"]
    ELSE [self EXCEPT !.datatype = type_,
                      !.variables = DictSet(self.variables, name,
                                            [type_ |-> type_, size |-> size])]

\* the while loop of lines 183-187: the dimensions of an array declaration,
\* outermost first, and the type under them
RECURSIVE DeclDims(_)
DeclDims(t) ==
    IF IsA(t, "ArrayDecl") THEN
        LET d == conv_ast_to_sym(t.dim) IN
        IF d.exc # "none" THEN [exc |-> d.exc, dims |-> <<>>, t |-> t]
        ELSE LET rest == DeclDims(t.type) IN
             [exc |-> rest.exc, dims |-> <<d.val>> \o rest.dims, t |-> rest.t]
    ELSE [exc |-> "none", dims |-> <<>>, t |-> t]

\* one iteration of the loop of lines 179-194
ProcessItem(self, item) ==
    IF IsA(item.type, "ArrayDecl") THEN
        LET d == DeclDims(item.type) IN
        IF d.exc # "none" THEN [self EXCEPT !.exc = d.exc]
        ELSE IF ~(hasattr(d.t, "type") /\ hasattr(d.t.type, "names")) THEN
            [self EXCEPT !.exc = "AttributeError"]
        ELSE IF Len(d.t.type.names) # 1 THEN
            [self EXCEPT !.exc = "only single types are supported"]
        ELSE set_variable(self, item.name, d.t.type.names[1], Tuple(d.dims))
    ELSE IF ~(hasattr(item.type, "type") /\ hasattr(item.type.type, "names")) THEN
        [self EXCEPT !.exc = "AttributeError"]
    ELSE IF Len(item.type.type.names) # 1 THEN
        [self EXCEPT !.exc = "only single types are supported"]
    ELSE set_variable(self, item.name, item.type.type.names[1], None)

(***************************************************************************)
(* Kernel._p_sources and Kernel._p_assignment.  self holds the fields they *)
(* write (sources, destinations, flops) and the exception raised, if any;  *)
(* after an exception nothing more is executed.                            *)
(***************************************************************************)
\* self._sources.setdefault(bname, []); self._sources[bname].append(offsets)
\* where computing the offsets may raise after the setdefault
RecordSource(self, bname, offsets) ==
    IF offsets.exc # "none" THEN
        [self EXCEPT !.sources = SetDefault(self.sources, bname), !.exc = offsets.exc]
    ELSE [self EXCEPT !.sources = DictAppend(self.sources, bname, offsets.val)]

RecordDestination(self, bname, offsets) ==
    IF offsets.exc # "none" THEN
        [self EXCEPT !.destinations = SetDefault(self.destinations, bname),
                     !.exc = offsets.exc]
    ELSE [self EXCEPT !.destinations = DictAppend(self.destinations, bname, offsets.val)]

\* self._flops[op] = self._flops.get(op, 0)+1
\* the tally with the count of op set to one, whatever it was
CountOnce(self, op) == [self EXCEPT !.flops = DictSet(self.flops, op, 1)]

CountFlop(self, op) ==
    [self EXCEPT !.flops = DictSet(self.flops, op, DictGet(self.flops, op, 0) + 1)]

RECURSIVE _p_sources(_, _)
_p_sources(self, stmt) ==
    IF self.exc # "none" THEN self
    ELSE IF stmt.node \notin {"ArrayRef", "Constant", "ID", "BinaryOp"} THEN
        [self EXCEPT !.exc = "only references to arrays, constants and variables as well as binary operations are supported"]
    ELSE IF IsA(stmt, "ArrayRef") THEN
        LET bname == _get_basename(stmt) IN
        IF bname.exc # "none" THEN [self EXCEPT !.exc = bname.exc]
        ELSE RecordSource(self, bname.val, _get_offsets(stmt, 0, self.loop_stack))
    ELSE IF IsA(stmt, "ID") THEN
        RecordSource(self, stmt.name, Return(<<<<"dir">>>>))
    ELSE IF IsA(stmt, "BinaryOp") THEN
        LET l == _p_sources(self, stmt.left)
            r == _p_sources(l, stmt.right)
        IN  IF r.exc # "none" THEN r ELSE CountFlop(r, stmt.op)
    ELSE self

\* write_and_read as if no assignment were compound
NeverWriteAndRead(op) == FALSE

\* lines 351-353: write_and_read
WriteAndRead(op) == op # "="

_p_assignment(self, stmt) ==
    IF ~IsA(stmt, "Assignment") THEN
        [self EXCEPT !.exc = "Only assignment statements are allowed in loops."]
    ELSE IF stmt.lvalue.node \notin {"ArrayRef", "ID"} THEN
        [self EXCEPT !.exc = "Only assignment to array element or varialbe is allowed."]
    ELSE
        LET write_and_read == WriteAndRead(stmt.op)
            s1 == IF write_and_read THEN CountFlop(self, StripEq(stmt.op)) ELSE self
            s2 == IF IsA(stmt.lvalue, "ArrayRef") THEN
                      LET bname == _get_basename(stmt.lvalue) IN
                      IF bname.exc # "none" THEN [s1 EXCEPT !.exc = bname.exc]
                      ELSE RecordDestination(s1, bname.val,
                               _get_offsets(stmt.lvalue, 0, s1.loop_stack))
                  ELSE RecordDestination(s1, stmt.lvalue.name, Return(<<<<"dir">>>>))
            s3 == IF s2.exc # "none" \/ ~write_and_read THEN s2
                  ELSE IF IsA(stmt.lvalue, "ArrayRef") THEN
                      RecordSource(s2, _get_basename(stmt.lvalue).val,
                          _get_offsets(stmt.lvalue, 0, s2.loop_stack))
                  ELSE RecordSource(s2, stmt.lvalue.name, Return(<<<<"dir">>>>))
        IN  _p_sources(s3, stmt.rvalue)

(***************************************************************************)
(* Kernel._p_for: the checks of one loop header and its Loop Stack entry.  *)
(***************************************************************************)
\* lines 295-305: the exclusive upper bound
IterMax(right) ==
    IF IsA(right, "ID") THEN Return(Symbol(right.name))
    ELSE IF IsA(right, "Constant") THEN
        IF IsIntLiteral(right.value) THEN Return(Integer(int(right.value)))
        ELSE Raise("ValueError")
    ELSE IF ~IsA(right.left, "ID") THEN Raise("left of operator has to be a variable")
    ELSE IF ~IsA(right.right, "Constant") THEN
        Raise("right of operator has to be a constant")
    ELSE IF ~InPlusMinus(right.op) THEN
        Raise("only plus (+) and minus (-) are accepted operators")
    ELSE conv_ast_to_sym(right)

\* lines 309-322: the step size
StepSize(floop) ==
    IF IsA(floop.next, "Assignment") THEN
        IF ~IsA(floop.next.lvalue, "ID") THEN
            Raise("next operation may only act on loop counter")
        ELSE IF ~IsA(floop.next.rvalue, "Constant") THEN
            Raise("only constant increments are allowed")
        ELSE IF ~(floop.next.lvalue.name = floop.cond.left.name
                  /\ floop.cond.left.name = floop.init.decls[1].name) THEN
            Raise("initial, condition and next statement of for loop must act on same loop counter variable")
        ELSE IF ~IsIntLiteral(floop.next.rvalue.value) THEN Raise("ValueError")
        ELSE Return(int(floop.next.rvalue.value))
    ELSE IF ~IsA(floop.next.expr, "ID") THEN
        Raise("next operation may only act on loop counter")
    ELSE IF ~(floop.next.expr.name = floop.cond.left.name
              /\ floop.cond.left.name = floop.init.decls[1].name) THEN
        Raise("initial, condition and next statement of for loop must act on same loop counter variable")
    ELSE Return(1)

\* lines 279-328: the entry (index name, min, max, step size) of a loop
LoopEntry(floop) ==
    IF ~IsA(floop, "For") THEN Raise("May only be a for loop")
    ELSE IF ~IsA(floop.init, "DeclList") THEN
        Raise("Initialization of loops need to be declarations.")
    ELSE IF Len(floop.init.decls) # 1 THEN
        Raise("Only single declaration is allowed in init. of loop.")
    ELSE IF ~hasattr(floop.cond, "op") THEN Raise("AttributeError")
    ELSE IF ~InLessThan(floop.cond.op) THEN
        Raise("only lt (<) is allowed as loop condition")
    ELSE IF ~hasattr(floop.cond, "left") THEN Raise("AttributeError")
    ELSE IF ~IsA(floop.cond.left, "ID") THEN
        Raise("left of cond. operand has to be a variable")
    ELSE IF floop.cond.right.node \notin {"Constant", "ID", "BinaryOp"} THEN
        Raise("right of cond. operand has to be a constant, a variable or a binary operation")
    ELSE IF floop.next.node \notin {"UnaryOp", "Assignment"} THEN
        Raise("next statement has to be a unary or assignment operation")
    ELSE IF floop.next.op \notin {"++", "p++", "+="} THEN
        Raise("only ++ and += next operations are allowed")
    ELSE IF floop.stmt.node \notin {"Compound", "Assignment", "For"} THEN
        Raise("the inner loop may contain only assignments or compounds of assignments")
    ELSE LET iter_max == IterMax(floop.cond.right) IN
         IF iter_max.exc # "none" THEN iter_max
         ELSE LET iter_min == conv_ast_to_sym(floop.init.decls[1].init) IN
              IF iter_min.exc # "none" THEN iter_min
              ELSE LET step_size == StepSize(floop) IN
                   IF step_size.exc # "none" THEN step_size
                   ELSE Return(<<floop.init.decls[1].name, iter_min.val,
                                 iter_max.val, step_size.val>>)

\* lines 331-342: what _p_for goes on with after the entry is recorded: a
\* nested loop, or the assignments of the innermost body.  An empty block
\* has block_items None, whose len() raises.
Traverse(stmt) ==
    IF IsA(stmt, "For") THEN [exc |-> "none", floop |-> stmt, stmts |-> <<>>]
    ELSE IF IsA(stmt, "Compound") /\ Len(stmt.block_items) = 0 THEN
        [exc |-> "TypeError", floop |-> None, stmts |-> <<>>]
    ELSE IF IsA(stmt, "Compound") /\ Len(stmt.block_items) = 1
            /\ IsA(stmt.block_items[1], "For") THEN
        [exc |-> "none", floop |-> stmt.block_items[1], stmts |-> <<>>]
    ELSE IF IsA(stmt, "Assignment") THEN
        [exc |-> "none", floop |-> None, stmts |-> <<stmt>>]
    ELSE [exc |-> "none", floop |-> None, stmts |-> stmt.block_items]

(***************************************************************************)
(* Python lists, with 0-based and negative indices as list.insert and      *)
(* list.pop take them.                                                     *)
(***************************************************************************)
\* list.insert(i, x)
Insert(list, i, x) ==
    LET n == Len(list)
        at == IF i < 0 THEN (IF n + i < 0 THEN 0 ELSE n + i)
              ELSE IF i > n THEN n ELSE i
    IN  SubSeq(list, 1, at) \o <<x>> \o SubSeq(list, at + 1, n)

\* the list after list.pop(i), and the element popped, for -len <= i < 0
Pop(list, i) == SubSeq(list, 1, Len(list) + i) \o SubSeq(list, Len(list) + i + 2, Len(list))

\* the element list.pop() removes: the last one, whatever i
PoppedLast(list, i) == list[Len(list)]

Popped(list, i) == list[Len(list) + i + 1]

\* the last element alone, where reduce combines them all
LastOperand(op, list) == list[Len(list)]

\* reduce(lambda l, r: c_ast.BinaryOp(op, l, r), list) for a non-empty list
RECURSIVE ReduceOp(_, _)
ReduceOp(op, list) ==
    IF Len(list) = 1 THEN list[1]
    ELSE BinaryOp(op, ReduceOp(op, SubSeq(list, 1, Len(list) - 1)), list[Len(list)])

\* list[:i]: the first i elements
FirstDims(list, i) ==
    LET n == IF i < Len(list) THEN i ELSE Len(list)
    IN  [m \in 1 .. n |-> list[m]]

\* list[-1:-i-1:-1]: the last i elements, last first (all of them if fewer)
LastReversed(list, i) ==
    LET n == IF i < Len(list) THEN i ELSE Len(list)
    IN  [m \in 1 .. n |-> list[Len(list) + 1 - m]]

\* str(i)
str(i) == ToString(i)

(***************************************************************************)
(* The tree transformations of as_code.                                    *)
(***************************************************************************)
\* the dimensions of a declaration, outermost first (lines 49-53)
RECURSIVE ArrayDims(_)
ArrayDims(t) == IF IsA(t, "ArrayDecl") THEN <<t.dim>> \o ArrayDims(t.type) ELSE <<>>

\* the type under the dimensions
RECURSIVE ElementType(_)
ElementType(t) == IF IsA(t, "ArrayDecl") THEN ElementType(t.type) ELSE t

\* the declaration after trasform_multidim_to_1d_decl(decl)
trasform_multidim_to_1d_decl(decl) ==
    LET dims == ArrayDims(decl.type) IN
    IF Len(dims) > 0
    THEN [decl EXCEPT !.type = ArrayDecl(ElementType(decl.type), ReduceOp("*", dims))]
    ELSE decl

\* the byte alignment of the arrays allocated (line 106)
Alignment == 32

\* the declaration after transform_array_decl_to_malloc(decl)
transform_array_decl_to_malloc(decl) ==
    IF ~IsA(decl.type, "ArrayDecl") THEN decl
    ELSE [decl EXCEPT
            !.init = FuncCall(ID("aligned_malloc"), ExprList(<<
                        BinaryOp("*",
                            UnaryOp("sizeof", Typename(NoName, <<>>,
                                TypeDecl(NoName, <<>>, decl.type.type.type))),
                            decl.type.dim),
                        Constant("int", str(Alignment))>>)),
            !.type = PtrDecl(<<>>, decl.type.type)]

\* the subscripts of a reference, last first, and its base (lines 68-72)
RECURSIVE RefSubscripts(_)
RefSubscripts(aref) ==
    IF IsA(aref, "ArrayRef") THEN <<aref.subscript>> \o RefSubscripts(aref.name) ELSE <<>>

RECURSIVE RefBase(_)
RefBase(aref) == IF IsA(aref, "ArrayRef") THEN RefBase(aref.name) ELSE aref

\* the exception transform_multidim_to_1d_ref raises, if any: a reference
\* with two or more subscripts needs declared dimensions of its base
RefRaises(aref, dimension_dict) ==
    IF Len(RefSubscripts(aref)) < 2 THEN "none"
    ELSE IF ~hasattr(RefBase(aref), "name") THEN "AttributeError"
    ELSE IF RefBase(aref).name \notin DOMAIN dimension_dict THEN "KeyError"
    ELSE IF Len(dimension_dict[RefBase(aref).name]) = 0 THEN "TypeError"
    ELSE "none"

\* the reference after transform_multidim_to_1d_ref(aref, dimension_dict)
transform_multidim_to_1d_ref(aref, dimension_dict) ==
    LET dims == RefSubscripts(aref)
        name == RefBase(aref)
        subscript_list ==
            [n \in 1 .. Len(dims) |->
                IF n = 1 THEN dims[n]
                ELSE BinaryOp("*", dims[n],
                         ReduceOp("*", LastReversed(dimension_dict[name.name], n - 1)))]
    IN  ArrayRef(name, ReduceOp("+", subscript_list))

\* the concatenation of the lists of a list
RECURSIVE Flatten(_)
Flatten(lists) == IF Len(lists) = 0 THEN <<>> ELSE Head(lists) \o Flatten(Tail(lists))

\* the children of a node, in the order of c_ast's children(); a child that
\* is None is no child
Children(n) ==
    LET kids ==
        CASE n.node = "ArrayDecl" -> <<n.type, n.dim>>
          [] n.node = "Assignment" -> <<n.lvalue, n.rvalue>>
          [] n.node = "BinaryOp" -> <<n.left, n.right>>
          [] n.node = "Compound" -> n.block_items
          [] n.node = "Decl" -> <<n.type, n.init>>
          [] n.node = "DeclList" -> n.decls
          [] n.node = "ExprList" -> n.exprs
          [] n.node = "For" -> <<n.init, n.cond, n.next, n.stmt>>
          [] n.node = "FuncCall" -> <<n.name, n.args>>
          [] n.node = "If" -> <<n.cond, n.iftrue, n.iffalse>>
          [] n.node \in {"PtrDecl", "TypeDecl", "Typename"} -> <<n.type>>
          [] n.node = "UnaryOp" -> <<n.expr>>
          [] OTHER -> <<>>
    IN  SelectSeq(kids, LAMBDA c : c.node # "None")

\* find_array_references(ast): the references of a tree that are not inside
\* another reference
RECURSIVE find_array_references(_)
find_array_references(ast) ==
    IF IsA(ast, "ArrayRef") THEN <<ast>>
    ELSE IF ast.node = "None" THEN <<>>
    ELSE LET kids == Children(ast)
         IN  Flatten([n \in 1 .. Len(kids) |-> find_array_references(kids[n])])

\* the tree after transform_multidim_to_1d_ref has been applied in place to
\* every reference find_array_references returns
RECURSIVE FlattenReferences(_, _)
FlattenReferences(n, dd) ==
    LET F(c) == FlattenReferences(c, dd)
        FS(cs) == [m \in 1 .. Len(cs) |-> FlattenReferences(cs[m], dd)]
    IN  CASE n.node = "ArrayRef" -> transform_multidim_to_1d_ref(n, dd)
          [] n.node = "ArrayDecl" -> [n EXCEPT !.type = F(@), !.dim = F(@)]
          [] n.node = "Assignment" -> [n EXCEPT !.lvalue = F(@), !.rvalue = F(@)]
          [] n.node = "BinaryOp" -> [n EXCEPT !.left = F(@), !.right = F(@)]
          [] n.node = "Compound" -> [n EXCEPT !.block_items = FS(@)]
          [] n.node = "Decl" -> [n EXCEPT !.type = F(@), !.init = F(@)]
          [] n.node = "DeclList" -> [n EXCEPT !.decls = FS(@)]
          [] n.node = "ExprList" -> [n EXCEPT !.exprs = FS(@)]
          [] n.node = "For" ->
               [n EXCEPT !.init = F(@), !.cond = F(@), !.next = F(@), !.stmt = F(@)]
          [] n.node = "FuncCall" -> [n EXCEPT !.name = F(@), !.args = F(@)]
          [] n.node = "If" -> [n EXCEPT !.cond = F(@), !.iftrue = F(@), !.iffalse = F(@)]
          [] n.node \in {"PtrDecl", "TypeDecl", "Typename"} -> [n EXCEPT !.type = F(@)]
          [] n.node = "UnaryOp" -> [n EXCEPT !.expr = F(@)]
          [] OTHER -> n

(***************************************************************************)
(* Kernel.as_code.  The statements of the program are kept with the        *)
(* identity of the object: oid is the number of the declaration among the  *)
(* declarations of the kernel, 0 for another statement, since              *)
(* list.index(d) finds d itself, the nodes having no equality.             *)
(***************************************************************************)
Obj(oid, obj) == [oid |-> oid, obj |-> obj]

\* ast.block_items.index(d) for the declaration with identity oid (0-based)
Index(items, oid) == (CHOOSE n \in 1 .. Len(items) : items[n].oid = oid) - 1

\* if (var_false) { dummy(arg); }
DummyGuard(arg) ==
    If(ID("var_false"), Compound(<<FuncCall(ID("dummy"), ExprList(<<arg>>))>>), None)

\* the argument of the dummy call for a declaration: the array, or the
\* address of the scalar
DummyArg(name, array_dimensions) ==
    IF Len(array_dimensions[name]) > 0 THEN ID(name) ELSE UnaryOp("&", ID(name))

\* the letters a counter name is searched in: chr(ord(c)+1)
Letters == <<"i", "j", "k", "l", "m", "n", "o", "p">>

\* the counter name without the search of lines 465-466
FirstLetter(n, array_dimensions) == Letters[n]

RECURSIVE FreshCounter(_, _)
FreshCounter(n, array_dimensions) ==
    IF Letters[n] \in DOMAIN array_dimensions THEN FreshCounter(n + 1, array_dimensions)
    ELSE Letters[n]

\* lines 463-491: the loop that initializes the array name
InitLoop(name, array_dimensions) ==
    LET counter_name == FreshCounter(1, array_dimensions)
        init == DeclList(<<Decl(counter_name, <<>>, <<>>,
                    TypeDecl(counter_name, <<>>, IdentifierType(<<"int">>)),
                    Constant("int", "0"))>>)
        cond == BinaryOp("<", ID(counter_name), ReduceOp("*", array_dimensions[name]))
        next_ == UnaryOp("++", ID(counter_name))
        stmt == Assignment("=", ArrayRef(ID(name), ID(counter_name)),
                           Constant("float", "0.23"))
    IN  For(init, cond, next_, stmt)

\* lines 455-517: the list after the initialization and the dummy guard of
\* the declarations n, n+1, ... have been inserted
RECURSIVE InjectInitialization(_, _, _, _)
InjectInitialization(items, n, count, array_dimensions) ==
    IF n > count THEN items
    ELSE LET i == Index(items, n)
             name == items[i + 1].obj.name
             fill == IF Len(array_dimensions[name]) > 0
                     THEN InitLoop(name, array_dimensions)
                     ELSE Assignment("=", ID(name), Constant("float", "0.23"))
             filled == Insert(items, i + 1, Obj(0, fill))
             guarded == Insert(filled, i + 2,
                               Obj(0, DummyGuard(DummyArg(name, array_dimensions))))
         IN  InjectInitialization(guarded, n + 1, count, array_dimensions)

\* the subscript i without line 441: 1 for every constant
FirstSubscript(n) == 1

\* lines 433 and 441: the subscript i for cli input of the n-th constant
CliSubscript(n) == 1 + (n - 1)

\* lines 433-444: the list after the declarations of the constants
\* constants[n], constants[n+1], ... have been inserted
\* the constants declared with the values bound, not read from argv
RECURSIVE DefineConstants(_, _, _)
DefineConstants(items, constants, n) ==
    IF n > Len(constants) THEN items
    ELSE LET name == constants[n][1]
             type_decl == TypeDecl(name, <<"const">>, IdentifierType(<<"int">>))
         IN  DefineConstants(
                 Insert(items, 0, Obj(0, Decl(name, <<"const">>, <<>>, type_decl,
                                              Constant("int", str(constants[n][2]))))),
                 constants, n + 1)

RECURSIVE DeclareConstants(_, _, _)
DeclareConstants(items, constants, n) ==
    IF n > Len(constants) THEN items
    ELSE LET name == constants[n][1]
             type_decl == TypeDecl(name, <<"const">>, IdentifierType(<<"int">>))
             init == FuncCall(ID("atoi"),
                        ExprList(<<ArrayRef(ID("argv"),
                                            Constant("int", str(CliSubscript(n))))>>))
         IN  DeclareConstants(
                 Insert(items, 0, Obj(0, Decl(name, <<"const">>, <<>>, type_decl, init))),
                 constants, n + 1)

\* a call of a function of the likwid marker interface
MarkerCall(name, args) == Obj(0, FuncCall(ID(name), args))

RegionTag == ExprList(<<Constant("string", "\"loop\"")>>)

\* lines 446-452: likwid_markerInit and likwid_markerThreadInit first,
\* likwid_markerClose last
InstrumentProgram(items) ==
    Append(Insert(Insert(items, 0, MarkerCall("likwid_markerInit", None)),
                  1, MarkerCall("likwid_markerThreadInit", None)),
           MarkerCall("likwid_markerClose", None))

\* lines 523-568: the region markers and the repeat loop around the kernel
\* loop, which is the last but one statement
InstrumentLoop(items, dummies, constants) ==
    LET started == Insert(items, -2, MarkerCall("likwid_markerStartRegion", RegionTag))
        type_decl == TypeDecl("repeat", <<>>, IdentifierType(<<"int">>))
        init == FuncCall(ID("atoi"),
                    ExprList(<<ArrayRef(ID("argv"),
                                        Constant("int", str(Len(constants) + 1)))>>))
        declared == Insert(started, -3,
                           Obj(0, Decl("repeat", <<"const">>, <<>>, type_decl, init)))
        cond == BinaryOp(">", ID("repeat"), Constant("int", "0"))
        next_ == UnaryOp("--", ID("repeat"))
        stmt == Compound(<<Popped(declared, -2).obj>> \o dummies)
        wrapped == Insert(Pop(declared, -2), -1, Obj(0, For(None, cond, next_, stmt)))
    IN  Insert(wrapped, -1, MarkerCall("likwid_markerStopRegion", RegionTag))

\* lines 570-595: the translation unit around the body of main
TranslationUnit(body) ==
    LET main == Decl("main", <<>>, <<>>,
                    FuncDecl(ParamList(<<
                        Typename(NoName, <<>>, TypeDecl("argc", <<>>, IdentifierType(<<"int">>))),
                        Typename(NoName, <<>>, PtrDecl(<<>>, PtrDecl(<<>>,
                            TypeDecl("argv", <<>>, IdentifierType(<<"char">>)))))>>),
                        TypeDecl("main", <<>>, IdentifierType(<<"int">>))),
                    None)
        dummy == Decl("dummy", <<>>, <<>>,
                    FuncDecl(ParamList(<<
                        Typename(NoName, <<>>, PtrDecl(<<>>,
                            TypeDecl(NoName, <<>>, IdentifierType(<<"double">>))))>>),
                        TypeDecl("dummy", <<>>, IdentifierType(<<"void">>))),
                    None)
        var_false == Decl("var_false", <<>>, <<"extern">>,
                        TypeDecl("var_false", <<>>, IdentifierType(<<"int">>)), None)
    IN  FileAST(<<dummy, var_false, FuncDef(main, None, body)>>)

\* lines 601-605: the #include lines put before the code
Includes(type_) ==
    (IF type_ = "likwid" THEN <<"<likwid.h>">> ELSE <<>>)
    \o <<"\"kerncraft.h\"", "<stdlib.h>">>

\* array_dimensions: dict(map(trasform_multidim_to_1d_decl, declarations))
RECURSIVE DimensionDict(_)
DimensionDict(declarations) ==
    IF Len(declarations) = 0 THEN EmptyDict
    ELSE LET d == declarations[Len(declarations)]
         IN  DictSet(DimensionDict(SubSeq(declarations, 1, Len(declarations) - 1)),
                     d.name, ArrayDims(d.type))

\* the first exception the rewriting of the references raises, if any
RECURSIVE FirstRaise(_, _)
FirstRaise(refs, dd) ==
    IF Len(refs) = 0 THEN "none"
    ELSE IF RefRaises(Head(refs), dd) # "none" THEN RefRaises(Head(refs), dd)
    ELSE FirstRaise(Tail(refs), dd)

Objects(items) == [n \in 1 .. Len(items) |-> items[n].obj]

\* as_code(type_) on the tree ast with the constants bound: the exception it
\* raises or the program it returns, and the tree ast as it leaves it
as_code(ast, constants, type_) ==
    LET block == ast.block_items
        IsDecl(n) == IsA(n, "Decl")
        declarations == SelectSeq(block, IsDecl)
        array_dimensions == DimensionDict(declarations)
        allocated ==
            [n \in 1 .. Len(block) |->
                IF IsDecl(block[n])
                THEN Obj(Len(SelectSeq(SubSeq(block, 1, n), IsDecl)),
                         transform_array_decl_to_malloc(
                             trasform_multidim_to_1d_decl(block[n])))
                ELSE Obj(0, block[n])]
        declared == DeclareConstants(allocated, constants, 1)
        marked == IF type_ = "likwid" THEN InstrumentProgram(declared) ELSE declared
        initialized == InjectInitialization(marked, 1, Len(declarations), array_dimensions)
        raised == FirstRaise(find_array_references(Compound(Objects(initialized))),
                             array_dimensions)
        flat == [n \in 1 .. Len(initialized) |->
                    Obj(initialized[n].oid,
                        FlattenReferences(initialized[n].obj, array_dimensions))]
        dummies == [n \in 1 .. Len(declarations) |->
                       DummyGuard(DummyArg(declarations[n].name, array_dimensions))]
        final == IF type_ = "likwid" THEN InstrumentLoop(flat, dummies, constants) ELSE flat
    IN  IF raised # "none"
        THEN [node |-> "Exception", exc |-> raised, tree |-> Compound(Objects(initialized))]
        ELSE [node |-> "Program", type_ |-> type_, includes |-> Includes(type_),
              ast |-> TranslationUnit(Compound(Objects(final))),
              tree |-> Compound(Objects(final))]

(***************************************************************************)
(* The kernels analysed: trees as the parser builds them for kernel code.  *)
(***************************************************************************)
CounterNames == <<"i", "j", "k", "l", "m">>

\* the size of dimension k of the arrays declared: N, M, then literals
Dim(k) ==
    CASE k = 1 -> ID("N")
      [] k = 2 -> ID("M")
      [] OTHER -> Constant("int", IntLiterals[k])

\* the type of "ctype name[Dim(k)]...[Dim(rank)]"; a scalar for k > rank
RECURSIVE ArrayType(_, _, _, _)
ArrayType(k, rank, name, ctype) ==
    IF k > rank THEN TypeDecl(name, <<>>, IdentifierType(ctype))
    ELSE ArrayDecl(ArrayType(k + 1, rank, name, ctype), Dim(k))

\* "ctype name[N][M]...;" with rank dimensions
VarDecl(name, ctype, rank) ==
    Decl(name, <<>>, <<>>, ArrayType(1, rank, name, ctype), None)

\* "name[subs[1]]...[subs[n]]"; the identifier for n = 0
RECURSIVE Ref(_, _)
Ref(name, subs) ==
    IF subs = <<>> THEN ID(name)
    ELSE ArrayRef(Ref(name, SubSeq(subs, 1, Len(subs) - 1)), subs[Len(subs)])

Lit(n) == Constant("int", IntLiterals[n])

\* "for (int counter = 0; counter < bound; next) stmt"
Loop(counter, bound, next, stmt) ==
    For(DeclList(<<Decl(counter, <<>>, <<>>,
                        TypeDecl(counter, <<>>, IdentifierType(<<"int">>)), Lit(0))>>),
        BinaryOp("<", ID(counter), bound), next, stmt)

PlainLoop(counter, stmt) ==
    Loop(counter, ID("N"), UnaryOp("p++", ID(counter)), stmt)

\* the loops over counters[1], ..., counters[Len(counters)], outermost first
RECURSIVE Nest(_, _)
Nest(counters, body) ==
    IF counters = <<>> THEN body
    ELSE PlainLoop(Head(counters), Nest(Tail(counters), body))

\* the subscript forms of the grammar, on counter c
SubForms == {"id", "plus", "minus", "lit"}

Subscript(form, c) ==
    CASE form = "id" -> ID(c)
      [] form = "plus" -> BinaryOp("+", ID(c), Lit(1))
      [] form = "minus" -> BinaryOp("-", ID(c), Lit(2))
      [] form = "lit" -> Lit(0)
      [] form = "times" -> BinaryOp("*", ID(c), Lit(2))
      [] form = "swapped" -> BinaryOp("+", Lit(1), ID(c))
      [] form = "float" -> Constant("float", "0.5")
      [] form = "ref" -> ArrayRef(ID("a"), ID(c))

\* arrays a and b of n dimensions, a loop nest over n counters, outermost
\* first (fwd) or innermost first, and one assignment
\* a[..]...[..] = b[..]...[..] with the subscript forms f[1], ..., f[n]
ReferenceKernel(n, fwd, f) ==
    Compound(<<VarDecl("a", <<"double">>, n), VarDecl("b", <<"double">>, n),
               Nest(IF fwd THEN SubSeq(CounterNames, 1, n)
                    ELSE [d \in 1 .. n |-> CounterNames[n + 1 - d]],
                    Assignment("=",
                        Ref("a", [d \in 1 .. n |-> Subscript(f[d], CounterNames[d])]),
                        Ref("b", [d \in 1 .. n |-> Subscript(f[n + 1 - d], CounterNames[d])])))>>)

\* kernels that differ in the references: every form of every subscript
ReferenceKernels ==
    UNION { { ReferenceKernel(n, fwd, f) : fwd \in BOOLEAN, f \in [1 .. n -> SubForms] } :
            n \in 1 .. MaxRank }

\* of these, the kernels whose subscripts take the forms in turn
FormsInTurn == <<"id", "plus", "minus", "lit">>

TurnedReferenceKernels ==
    { ReferenceKernel(n, TRUE, [d \in 1 .. n |-> FormsInTurn[((d + shift) % 4) + 1]]) :
        n \in 1 .. MaxRank, shift \in 0 .. 3 }

\* kernels whose references have r subscripts on a variable declared with n
\* dimensions (n = 0: a scalar; r = 0: the bare identifier)
RankKernels ==
    { Compound(<<VarDecl("a", <<"double">>, n), VarDecl("b", <<"double">>, n),
        Nest(SubSeq(CounterNames, 1, MaxRank),
             Assignment("=", Ref("a", [d \in 1 .. r |-> ID(CounterNames[d])]),
                             Ref("b", [d \in 1 .. r |-> ID(CounterNames[d])])))>>) :
        n \in 0 .. MaxRank, r \in 0 .. MaxRank }

\* kernels with one subscript outside the grammar, on either side
BadSubscriptKernels ==
    { Compound(<<VarDecl("a", <<"double">>, 2), VarDecl("b", <<"double">>, 2),
        Nest(<<"i", "j">>,
             Assignment("=", Ref("a", IF side = 1 THEN subs ELSE <<ID("i"), ID("j")>>),
                             Ref("b", IF side = 2 THEN subs ELSE <<ID("i"), ID("j")>>)))>>) :
        side \in 1 .. 2,
        subs \in { <<Subscript(f, "i"), ID("j")>> : f \in {"times", "swapped", "float", "ref"} }
              \cup { <<ID("i"), Subscript(f, "j")>> : f \in {"times", "swapped", "float", "ref"} }
              \cup { <<ID("N"), ID("j")>>, <<ID("i"), BinaryOp("+", ID("N"), Lit(1))>>,
                     <<UnaryOp("-", ID("i")), ID("j")>> } }

\* the statements of a loop body: assignment operators, left-hand sides and
\* right-hand sides, inside and outside the grammar
AssignOps == {"=", "+=", "-=", "*=", "/="}

Lvalues == { Ref("a", <<ID("i")>>), ID("s") }

Rvalues ==
    { Ref("b", <<ID("i")>>), ID("s"), Constant("float", "0.5"), ID("N"),
      BinaryOp("+", Ref("b", <<ID("i")>>), ID("s")),
      BinaryOp("*", Ref("b", <<BinaryOp("-", ID("i"), Lit(1))>>),
                    Ref("b", <<BinaryOp("+", ID("i"), Lit(1))>>)),
      BinaryOp("/", Ref("b", <<ID("i")>>), ID("s")),
      BinaryOp("-", BinaryOp("+", Ref("a", <<ID("i")>>), Ref("b", <<ID("i")>>)), ID("s")),
      UnaryOp("-", Ref("b", <<ID("i")>>)),
      BinaryOp("+", Ref("b", <<ID("i")>>), FuncCall(ID("f"), ExprList(<<ID("s")>>))) }

Statements == { Assignment(op, l, r) : op \in AssignOps, l \in Lvalues, r \in Rvalues }

\* a few statements for the bodies with two statements
BlockStatements ==
    { Assignment("+=", Ref("a", <<ID("i")>>), Ref("b", <<ID("i")>>)),
      Assignment("=", ID("s"), BinaryOp("+", ID("s"), Ref("a", <<ID("i")>>))),
      Assignment("=", Ref("a", <<ID("j")>>), ID("s")),
      Assignment("*=", ID("s"), UnaryOp("-", ID("s"))),
      UnaryOp("p++", ID("s")) }

AssignmentKernels ==
    { Compound(<<VarDecl("a", <<"double">>, 1), VarDecl("b", <<"double">>, 1),
                 VarDecl("s", <<"double">>, 0), PlainLoop("i", body)>>) :
        body \in Statements \cup { Compound(<<x>>) : x \in BlockStatements }
                 \cup { Compound(<<x, y>>) : x \in BlockStatements, y \in BlockStatements }
                 \cup { Assignment("=", UnaryOp("*", ID("s")), ID("s")) } }

\* loop headers: [init, cond, next] of a loop over counter c
IntDecl(c, init) ==
    Decl(c, <<>>, <<>>, TypeDecl(c, <<>>, IdentifierType(<<"int">>)), init)

Header(c, bound, next) ==
    [init |-> DeclList(<<IntDecl(c, Lit(0))>>),
     cond |-> BinaryOp("<", ID(c), bound), next |-> next]

\* headers of the grammar: the forms of the bound and of the increment
GoodHeaders(c) ==
    { Header(c, bound, UnaryOp("p++", ID(c))) :
        bound \in { Lit(4), BinaryOp("-", ID("N"), Lit(1)), BinaryOp("+", ID("M"), Lit(1)) } }
    \cup { Header(c, ID("N"), next) :
        next \in { UnaryOp("++", ID(c)) }
                 \cup { Assignment("+=", ID(c), Lit(n)) : n \in 0 .. 2 } }

\* headers outside the grammar
BadHeaders(c) ==
    { Header(c, bound, UnaryOp("p++", ID(c))) :
        bound \in { BinaryOp("*", ID("N"), Lit(2)), BinaryOp("-", Lit(4), Lit(1)),
                    BinaryOp("+", ID("N"), ID("M")), Constant("float", "0.5"),
                    UnaryOp("-", ID("N")) } }
    \cup { Header(c, ID("N"), next) :
        next \in { UnaryOp("p--", ID(c)), UnaryOp("++", ID("x")),
                   UnaryOp("++", Ref("a", <<Lit(0)>>)),
                   Assignment("+=", ID("x"), Lit(1)), Assignment("-=", ID(c), Lit(1)),
                   Assignment("=", ID(c), BinaryOp("+", ID(c), Lit(1))),
                   Assignment("+=", ID(c), ID("N")),
                   Assignment("+=", ID(c), Constant("float", "0.5")),
                   Assignment("+=", Ref("a", <<Lit(0)>>), Lit(1)),
                   FuncCall(ID("f"), ExprList(<<ID(c)>>)), None } }
    \cup { [Header(c, ID("N"), UnaryOp("p++", ID(c))) EXCEPT !.cond = cond] :
        cond \in { BinaryOp("<=", ID(c), ID("N")), BinaryOp("<", ID("x"), ID("N")),
                   BinaryOp("<", Lit(0), ID("N")), UnaryOp("!", ID(c)), ID(c), None } }
    \cup { [Header(c, ID("N"), UnaryOp("p++", ID(c))) EXCEPT !.init = init] :
        init \in { DeclList(<<IntDecl(c, Lit(0)), IntDecl("x", Lit(0))>>),
                   DeclList(<<IntDecl("x", Lit(0))>>),
                   DeclList(<<IntDecl(c, None)>>),
                   DeclList(<<IntDecl(c, UnaryOp("-", Lit(1)))>>),
                   Assignment("=", ID(c), Lit(0)), None } }
    \cup { [Header(c, ID("N"), UnaryOp("p++", ID(c))) EXCEPT !.init = init] :
        init \in { DeclList(<<IntDecl(c, ID("M"))>>),
                   DeclList(<<IntDecl(c, BinaryOp("-", ID("M"), Lit(1)))>>) } }

\* the loops with headers hs[1], ..., outermost first; every loop but the
\* outermost is the statement of its parent (wrapped = FALSE) or the only
\* statement of its parent's block (wrapped = TRUE)
RECURSIVE HeaderNest(_, _, _)
HeaderNest(hs, wrapped, body) ==
    IF Len(hs) = 0 THEN body
    ELSE LET inner == HeaderNest(Tail(hs), wrapped, body)
             stmt == IF wrapped /\ Len(hs) > 1 THEN Compound(<<inner>>) ELSE inner
         IN  For(hs[1].init, hs[1].cond, hs[1].next, stmt)

PlainHeader(c) == Header(c, ID("N"), UnaryOp("p++", ID(c)))

NestBody == Assignment("+=", Ref("a", <<ID("i")>>), Ref("a", <<BinaryOp("+", ID("i"), Lit(1))>>))

\* kernels that differ in the loop nest: one header of depth levels varied
\* at a time; the counter names, possibly repeated; the shapes of the bodies
NestKernels ==
    UNION { UNION { { Compound(<<VarDecl("a", <<"double">>, 1),
                HeaderNest([n \in 1 .. depth |->
                               IF n = level THEN h ELSE PlainHeader(CounterNames[n])],
                           wrapped, NestBody)>>) :
                wrapped \in BOOLEAN, h \in GoodHeaders(CounterNames[level]) } :
            level \in 1 .. depth } : depth \in 1 .. MaxRank }
    \cup UNION { { Compound(<<VarDecl("a", <<"double">>, 1),
                HeaderNest([n \in 1 .. 2 |->
                               IF n = level THEN h ELSE PlainHeader(CounterNames[n])],
                           FALSE, NestBody)>>) :
                h \in BadHeaders(CounterNames[level]) } : level \in 1 .. 2 }
    \cup UNION { { Compound(<<VarDecl("a", <<"double">>, 1),
                HeaderNest([n \in 1 .. depth |-> PlainHeader(cs[n])], wrapped, NestBody)>>) :
                wrapped \in BOOLEAN, cs \in [1 .. depth -> {"i", "j"}] } :
            depth \in 1 .. MaxRank }
    \cup { Compound(<<VarDecl("a", <<"double">>, 1), PlainLoop("i", stmt)>>) :
             stmt \in { Compound(<<PlainLoop("j", NestBody), NestBody>>),
                        Compound(<<NestBody, PlainLoop("j", NestBody)>>),
                        Compound(<<Compound(<<PlainLoop("j", NestBody)>>)>>),
                        Compound(<<Compound(<<NestBody>>)>>),
                        Compound(<<PlainLoop("j", NestBody), PlainLoop("k", NestBody)>>),
                        Compound(<<VarDecl("t", <<"double">>, 0), NestBody>>),
                        Compound(<<>>), [node |-> "EmptyStatement"],
                        If(ID("s"), NestBody, None),
                        FuncCall(ID("f"), ExprList(<<ID("i")>>)) } }

\* kernels that differ in the declarations: the element types and the ranks
CTypes == { <<"double">>, <<"float">>, <<"int">> }

DeclNames == <<"a", "b", "s">>

\* a statement that reads and writes the variable declared first
DeclBody(rank) ==
    Assignment("=", Ref("a", [d \in 1 .. rank |-> ID(CounterNames[d])]),
                    BinaryOp("+", Ref("a", [d \in 1 .. rank |-> ID(CounterNames[d])]), ID("b")))

DeclKernels ==
    { Compound(<<Nest(<<"i", "j">>, DeclBody(1))>>) }
    \cup { Compound(<<VarDecl("a", t, r), Nest(<<"i", "j">>, DeclBody(r))>>) :
             t \in CTypes, r \in 0 .. 2 }
    \cup { Compound(<<VarDecl("a", t1, r1), VarDecl("b", t2, r2),
                      Nest(<<"i", "j">>, DeclBody(r1))>>) :
             t1 \in CTypes, r1 \in 0 .. 2, t2 \in CTypes, r2 \in 0 .. 2 }
    \cup { Compound(<<VarDecl("a", t1, 1), VarDecl("b", t2, 0), VarDecl("s", t3, 2),
                      Nest(<<"i", "j">>, DeclBody(1))>>) :
             t1 \in CTypes, t2 \in CTypes, t3 \in CTypes }
    \cup { Compound(<<VarDecl("a", <<"double">>, 1), d, PlainLoop("i", DeclBody(1))>>) :
             d \in { VarDecl("b", <<"long", "double">>, 0),
                     VarDecl("b", <<"long", "double">>, 1),
                     Decl("b", <<>>, <<>>, PtrDecl(<<>>, TypeDecl("b", <<>>, IdentifierType(<<"double">>))), None),
                     Decl("b", <<>>, <<>>, ArrayDecl(PtrDecl(<<>>, TypeDecl("b", <<>>, IdentifierType(<<"double">>))), ID("N")), None),
                     Decl("b", <<>>, <<>>, ArrayDecl(TypeDecl("b", <<>>, IdentifierType(<<"double">>)),
                                                     BinaryOp("/", ID("N"), Lit(2))), None),
                     Decl("b", <<>>, <<>>, ArrayDecl(TypeDecl("b", <<>>, IdentifierType(<<"double">>)),
                                                     BinaryOp("*", ID("N"), BinaryOp("+", ID("M"), Lit(1)))), None),
                     Decl("b", <<>>, <<>>, ArrayDecl(TypeDecl("b", <<>>, IdentifierType(<<"double">>)),
                                                     Constant("float", "0.5")), None),
                     Decl("b", <<>>, <<>>, ArrayDecl(TypeDecl("b", <<>>, IdentifierType(<<"double">>)),
                                                     None), None),
                     VarDecl("a", <<"double">>, 2), VarDecl("i", <<"double">>, 1),
                     Assignment("=", ID("a"), Lit(0)), PlainLoop("j", DeclBody(1)) } }
    \cup { Compound(<<>>),
           Compound(<<VarDecl("a", <<"double">>, 1)>>),
           Compound(<<VarDecl("a", <<"double">>, 1), VarDecl("b", <<"float">>, 1)>>),
           Compound(<<VarDecl("a", <<"double">>, 1), VarDecl("b", <<"float">>, 1),
                      Assignment("=", ID("a"), Lit(0))>>),
           Compound(<<VarDecl("a", <<"double">>, 1), DeclBody(1)>>),
           Compound(<<PlainLoop("i", DeclBody(1)), VarDecl("a", <<"double">>, 1)>>) }

\* the kernels the analysis is checked on
Kernels ==
    ReferenceKernels \cup RankKernels \cup BadSubscriptKernels
    \cup AssignmentKernels \cup NestKernels \cup DeclKernels

\* of these, the kernels the calls that follow the analysis are checked on
CodeKernels == TurnedReferenceKernels \cup RankKernels \cup DeclKernels

(***************************************************************************)
(* The state of a Kernel object and of the walk of its constructor.        *)
(***************************************************************************)
VARIABLES
    kernel_ast,      \* self.kernel_ast: the body of the parsed kernel
    _loop_stack,     \* self._loop_stack: (index name, min, max, step size)
    _variables,      \* self._variables: name -> (type_, size)
    _sources,        \* self._sources: name -> list of offsets
    _destinations,   \* self._destinations: name -> list of offsets
    _flops,          \* self._flops: operator -> count
    datatype,        \* self.datatype
    _constants,      \* self._constants: (name, value) in insertion order
    pc,              \* where the constructor is, "done" once it has returned,
                     \* "raised" once an exception has left it
    item,            \* index of the declaration _process_code is at
    floop,           \* the loop _p_for is called with
    stmts,           \* the assignments _p_for has still to hand to _p_assignment
    exc,             \* the exception that left the constructor
    returned         \* what the last call of as_code or subs_consts returned

analysis == <<_loop_stack, _variables, _sources, _destinations, _flops, datatype>>

walk == <<item, floop, stmts>>

vars == <<kernel_ast, _loop_stack, _variables, _sources, _destinations, _flops,
          datatype, _constants, pc, item, floop, stmts, exc, returned>>

\* the fields of self the analysis reads and writes, as one record
Self ==
    [loop_stack |-> _loop_stack, variables |-> _variables, sources |-> _sources,
     destinations |-> _destinations, flops |-> _flops, datatype |-> datatype,
     exc |-> "none"]

\* the fields of self after a step of the analysis
Store(self) ==
    /\ _loop_stack' = self.loop_stack
    /\ _variables' = self.variables
    /\ _sources' = self.sources
    /\ _destinations' = self.destinations
    /\ _flops' = self.flops
    /\ datatype' = self.datatype
    /\ exc' = self.exc

\* the constructor going on after an exception
Recover(raised, normal) == normal

\* the entry put before the entries of the loops around it
Prepend(loop_stack, entry) == <<entry>> \o loop_stack

\* self._loop_stack.append(entry), lines 325-328
Document(loop_stack, entry) == Append(loop_stack, entry)

\* where the constructor is after a step: an exception leaves it at once
Continue(raised, normal) == IF raised # "none" THEN "raised" ELSE normal

\* __init__ up to the call of _process_code (lines 128-141), for the kernel
\* with the tree ast
Construct(ast) ==
    /\ kernel_ast = ast
    /\ _loop_stack = <<>>
    /\ _variables = EmptyDict
    /\ _sources = EmptyDict
    /\ _destinations = EmptyDict
    /\ _flops = EmptyDict
    /\ datatype = "None"
    /\ _constants = <<>>
    /\ pc = "_process_code"
    /\ item = 0
    /\ floop = None
    /\ stmts = <<>>
    /\ exc = "none"
    /\ returned = None

\* _process_code, lines 173-177: the shape of the kernel body.  An empty
\* body has block_items None, and slicing it raises.
ProcessCode ==
    /\ pc = "_process_code"
    /\ LET items == kernel_ast.block_items
           raised ==
               IF Len(items) = 0 THEN "TypeError"
               ELSE IF \E n \in 1 .. Len(items) - 1 : ~IsA(items[n], "Decl") THEN
                   "all statments befor the for loop need to be declarations"
               ELSE IF ~IsA(items[Len(items)], "For") THEN
                   "last statment in kernel code must be a loop"
               ELSE "none"
       IN  /\ exc' = raised
           /\ pc' = Continue(raised, IF Len(items) > 1 THEN "declarations" ELSE "_p_for")
           /\ item' = IF raised = "none" /\ Len(items) > 1 THEN 1 ELSE item
           /\ floop' = IF raised = "none" /\ Len(items) = 1 THEN items[1] ELSE floop
    /\ UNCHANGED <<kernel_ast, analysis, _constants, stmts, returned>>

\* _process_code, lines 179-197: one declaration; after the last one _p_for
\* is called with the loop that ends the kernel
ProcessDeclaration ==
    /\ pc = "declarations"
    /\ LET items == kernel_ast.block_items
           self == ProcessItem(Self, items[item])
           last == item = Len(items) - 1
       IN  /\ Store(self)
           /\ pc' = Continue(self.exc, IF last THEN "_p_for" ELSE "declarations")
           /\ item' = IF self.exc = "none" /\ ~last THEN item + 1 ELSE item
           /\ floop' = IF self.exc = "none" /\ last THEN items[Len(items)] ELSE floop
    /\ UNCHANGED <<kernel_ast, _constants, stmts, returned>>

\* _p_for, lines 277-342, for one loop: the header checks, the Loop Stack
\* entry, and the choice of what is walked next
PFor ==
    /\ pc = "_p_for"
    /\ LET entry == LoopEntry(floop)
           next == IF entry.exc # "none"
                   THEN [exc |-> entry.exc, floop |-> None, stmts |-> <<>>]
                   ELSE Traverse(floop.stmt)
       IN  /\ _loop_stack' = IF entry.exc = "none" THEN Document(_loop_stack, entry.val)
                             ELSE _loop_stack
           /\ exc' = next.exc
           /\ pc' = Continue(next.exc, IF IsA(next.floop, "For") THEN "_p_for"
                                       ELSE "_p_assignment")
           /\ floop' = IF next.exc = "none" THEN next.floop ELSE floop
           /\ stmts' = IF next.exc = "none" THEN next.stmts ELSE stmts
    /\ UNCHANGED <<kernel_ast, _variables, _sources, _destinations, _flops, datatype,
                   _constants, item, returned>>

\* _p_assignment, lines 344-380, for the next statement of the innermost
\* body; after the last one the constructor returns
PAssignment ==
    /\ pc = "_p_assignment"
    /\ LET self == _p_assignment(Self, Head(stmts))
       IN  /\ Store(self)
           /\ pc' = Continue(self.exc, IF Len(stmts) = 1 THEN "done" ELSE "_p_assignment")
           /\ stmts' = IF self.exc = "none" THEN Tail(stmts) ELSE stmts
    /\ UNCHANGED <<kernel_ast, _constants, item, floop, returned>>

\* the names and the values set_constant is called with
ConstantNames == {"N", "M"}

ConstantValues == 1 .. MaxValue

\* the values of type_ as_code is called with
CodeTypes == {"iaca", "likwid"}

\* ast = self.kernel_ast: the rewriting is done on the tree of the kernel
alias(original, rewritten) == rewritten

\* the tree self.kernel_ast refers to once as_code has rewritten, in place,
\* the tree deepcopy(self.kernel_ast) gave it (line 424): a deep copy shares
\* no node with the original
deepcopy(original, rewritten) == original

\* Kernel.set_constant(name, value)
SetConstant(name, value) ==
    /\ pc = "done"
    /\ _constants' = SetItem(_constants, name, value)
    /\ UNCHANGED <<kernel_ast, analysis, pc, walk, exc, returned>>

\* Kernel.clear_state(); asm_blocks and asm_block_idx, which only assemble()
\* sets, are left out
ClearState ==
    /\ pc = "done"
    /\ _constants' = <<>>
    /\ UNCHANGED <<kernel_ast, analysis, pc, walk, exc, returned>>

\* Kernel.subs_consts(expr) for a bound of the Loop Stack
SubsConsts(expr) ==
    /\ pc = "done"
    /\ returned' = [node |-> "Expr", expr |-> subs_consts(expr, _constants)]
    /\ UNCHANGED <<kernel_ast, analysis, _constants, pc, walk, exc>>

\* Kernel.as_code(type_)
AsCode(type_) ==
    /\ pc = "done"
    /\ \E result \in {as_code(kernel_ast, _constants, type_)} :
           /\ returned' = IF result.node = "Exception"
                          THEN [node |-> "Exception", exc |-> result.exc]
                          ELSE [node |-> "Program", type_ |-> result.type_,
                                includes |-> result.includes, ast |-> result.ast]
           /\ kernel_ast' = deepcopy(kernel_ast, result.tree)
    /\ UNCHANGED <<analysis, _constants, pc, walk, exc>>

\* the bounds of the loops
LoopBounds == { _loop_stack[n][b] : n \in 1 .. Len(_loop_stack), b \in 2 .. 3 }

Init == \E ast \in CodeKernels : Construct(ast)

Next ==
    \/ ProcessCode
    \/ ProcessDeclaration
    \/ PFor
    \/ PAssignment
    \/ \E name \in ConstantNames, value \in ConstantValues : SetConstant(name, value)
    \/ ClearState
    \/ \E expr \in LoopBounds : SubsConsts(expr)
    \/ \E type_ \in CodeTypes : AsCode(type_)

Spec == Init /\ [][Next]_vars

\* the analysis alone, on all the kernels
AnalysisInit == \E ast \in Kernels : Construct(ast)

Analysis == ProcessCode \/ ProcessDeclaration \/ PFor \/ PAssignment

AnalysisSpec == AnalysisInit /\ [][Analysis]_vars

(***************************************************************************)
(* Properties of the analysis, checked under AnalysisSpec.                 *)
(***************************************************************************)
\* the elements of a list
Elements(list) == { list[n] : n \in 1 .. Len(list) }

\* the subscripts of a reference as the source writes them, left to right
RECURSIVE Subscripts(_)
Subscripts(ref) ==
    IF IsA(ref, "ArrayRef") THEN Subscripts(ref.name) \o <<ref.subscript>> ELSE <<>>

\* the Offset Descriptor of a subscript of the grammar: relative to a
\* counter, or absolute
Descriptor(sub) ==
    CASE IsA(sub, "ID") -> <<"rel", sub.name, 0>>
      [] IsA(sub, "Constant") -> <<"abs", int(sub.value)>>
      [] IsA(sub, "BinaryOp") /\ sub.op = "+" -> <<"rel", sub.left.name, int(sub.right.value)>>
      [] IsA(sub, "BinaryOp") /\ sub.op = "-" -> <<"rel", sub.left.name, 0 - int(sub.right.value)>>

\* the Access Site of a reference or of an identifier
Site(ref) ==
    IF IsA(ref, "ID") THEN << <<"dir">> >>
    ELSE [d \in 1 .. Len(Subscripts(ref)) |-> Descriptor(Subscripts(ref)[d])]

\* a step of _p_assignment that accepts the statement Head(stmts)
Accepted == pc = "_p_assignment" /\ pc' # "raised"

Last(list) == list[Len(list)]

RECURSIVE OperandSites(_, _)
OperandSites(expr, name) ==
    CASE IsA(expr, "ArrayRef") ->
           IF RefBase(expr).name = name THEN <<Site(expr)>> ELSE <<>>
      [] IsA(expr, "ID") -> IF expr.name = name THEN <<Site(expr)>> ELSE <<>>
      [] IsA(expr, "BinaryOp") ->
           OperandSites(expr.left, name) \o OperandSites(expr.right, name)
      [] OTHER -> <<>>

\* the names of the operands of a right-hand side
RECURSIVE OperandNames(_)
OperandNames(expr) ==
    CASE IsA(expr, "ArrayRef") -> {RefBase(expr).name}
      [] IsA(expr, "ID") -> {expr.name}
      [] IsA(expr, "BinaryOp") -> OperandNames(expr.left) \cup OperandNames(expr.right)
      [] OTHER -> {}

\* the number of binary operations with the operator op in a right-hand
\* side, those inside subscripts left out
RECURSIVE Operations(_, _)
Operations(expr, op) ==
    IF IsA(expr, "BinaryOp")
    THEN (IF expr.op = op THEN 1 ELSE 0) + Operations(expr.left, op) + Operations(expr.right, op)
    ELSE 0

\* the operators of the binary operations of a right-hand side
RECURSIVE Operators(_)
Operators(expr) ==
    IF IsA(expr, "BinaryOp")
    THEN {expr.op} \cup Operators(expr.left) \cup Operators(expr.right)
    ELSE {}

\* the symbol of a compound assignment operator
CompoundSymbol(op) ==
    CASE op = "+=" -> "+" [] op = "-=" -> "-" [] op = "*=" -> "*"
      [] op = "/=" -> "/" [] OTHER -> "="

\* C2: when an assignment is accepted, the Access Site of its left-hand side
\* is appended to destinations and nothing else is; the sources gain that
\* site if and only if the operator is compound, and then the sites of the
\* operands of the right-hand side; the Operation Tally gains one count for
\* the symbol of a compound operator, none for a plain one, besides the
\* counts of the binary operations of the right-hand side.
CompoundAssignmentDuality ==
    [][Accepted =>
          LET stmt == Head(stmts)
              target == RefBase(stmt.lvalue).name
              compound == stmt.op # "="
              names == DOMAIN _sources \cup DOMAIN _sources'
                       \cup OperandNames(stmt.rvalue) \cup {target}
              ops == DOMAIN _flops \cup DOMAIN _flops' \cup Operators(stmt.rvalue)
                     \cup {CompoundSymbol(stmt.op)}
          IN  /\ _destinations' = DictAppend(_destinations, target, Site(stmt.lvalue))
              /\ \A name \in names :
                    DictGet(_sources', name, <<>>)
                      = DictGet(_sources, name, <<>>)
                        \o (IF compound /\ name = target THEN <<Site(stmt.lvalue)>> ELSE <<>>)
                        \o OperandSites(stmt.rvalue, name)
              /\ \A op \in ops :
                    DictGet(_flops', op, 0)
                      = DictGet(_flops, op, 0) + Operations(stmt.rvalue, op)
                        + (IF compound /\ op = CompoundSymbol(stmt.op) THEN 1 ELSE 0)]_vars

\* a[i] += b[i] in a loop over i
CompoundAssignmentDualityWitness ==
    /\ pc = "done"
    /\ _flops = [op \in {"+"} |-> 1]
    /\ DOMAIN _destinations = {"a"}
    /\ DOMAIN _sources = {"a", "b"}
    /\ _destinations["a"] = << << <<"rel", "i", 0>> >> >>
    /\ _sources["a"] = _destinations["a"]
    /\ _sources["b"] = _destinations["a"]

\* C6: after a successful analysis the counter names of the Loop Stack are
\* pairwise distinct.
UniqueCounters ==
    pc = "done" =>
        \A m, n \in 1 .. Len(_loop_stack) : m # n => _loop_stack[m][1] # _loop_stack[n][1]

\* C7: after a successful analysis every Access Site recorded for an array
\* Variable has as many Offset Descriptors as the Variable has dimensions,
\* and every Access Site recorded for a scalar Variable is [direct].
AccessSiteRank ==
    pc = "done" =>
        \A name \in (DOMAIN _sources \cup DOMAIN _destinations) \cap DOMAIN _variables :
            \A n \in 1 .. Len(DictGet(_sources, name, <<>>) \o DictGet(_destinations, name, <<>>)) :
                LET site == (DictGet(_sources, name, <<>>) \o DictGet(_destinations, name, <<>>))[n]
                    size == _variables[name].size
                IN  IF size.node = "tuple"
                    THEN Len(site) = Len(size.items) /\ site[1][1] # "dir"
                    ELSE Len(site) = 1 /\ site[1][1] = "dir"

\* C8: after a successful analysis every key of the Operation Tally is one
\* of +, -, *.
TallyOperators == pc = "done" => DOMAIN _flops \subseteq {"+", "-", "*"}

\* C8, amended: when an assignment is accepted, every key the Operation
\* Tally gains is the operator of a binary operation of the right-hand side
\* or the symbol of the compound assignment operator, whatever the operator.
TallyKeys ==
    [][Accepted =>
          LET stmt == Head(stmts) IN
          DOMAIN _flops' \ DOMAIN _flops
            \subseteq Operators(stmt.rvalue)
                      \cup (IF stmt.op # "=" THEN {CompoundSymbol(stmt.op)} ELSE {})]_vars

\* a division and a compound division have been tallied
TallyKeysWitness == pc = "done" /\ "/" \in DOMAIN _flops /\ _flops["/"] = 2

\* C10: an exception leaves the constructor at once and no Data Model is
\* made available; the step that raises leaves the walk where it is, so no
\* later node is examined; and the walk examines the declarations, then the
\* loop headers, then the assignments.
FailFast ==
    /\ [](exc # "none" => pc = "raised")
    /\ [](pc \in {"_process_code", "declarations"} => _loop_stack = <<>>)
    /\ [](pc \in {"_process_code", "declarations", "_p_for"} =>
            _sources = EmptyDict /\ _destinations = EmptyDict /\ _flops = EmptyDict)
    /\ [][exc' # "none" => pc' = "raised" /\ UNCHANGED walk]_vars
    /\ [][pc = "raised" => UNCHANGED vars]_vars

\* the first of the two statements of a body is no assignment: the second
\* is never examined
FailFastWitness ==
    /\ pc = "raised"
    /\ exc = "Only assignment statements are allowed in loops."
    /\ Len(stmts) = 2
    /\ Len(_loop_stack) = 1
    /\ DOMAIN _variables = {"a", "b", "s"}

\* the kernel has the shape _process_code asks for: declarations, then a loop
WellShaped ==
    LET items == kernel_ast.block_items IN
    /\ Len(items) >= 1
    /\ \A n \in 1 .. Len(items) - 1 : IsA(items[n], "Decl")
    /\ IsA(items[Len(items)], "For")

\* a fresh Kernel, before any declaration is processed
Fresh ==
    [loop_stack |-> <<>>, variables |-> EmptyDict, sources |-> EmptyDict,
     destinations |-> EmptyDict, flops |-> EmptyDict, datatype |-> "None",
     exc |-> "none"]

\* the declarations of a well-shaped kernel
Preamble == SubSeq(kernel_ast.block_items, 1, Len(kernel_ast.block_items) - 1)

\* every declaration is accepted when it is the only one: one supported
\* element type, sizes of the grammar
SupportedDeclarations == \A d \in Elements(Preamble) : ProcessItem(Fresh, d).exc = "none"

\* the element type of a supported declaration
TypeName(d) == ElementType(d.type).type.names[1]

\* C11: a kernel of the required shape whose declarations, each of a
\* supported element type, include a float and a double Variable, in
\* either order and at any positions, fails with the mixed-datatype
\* violation while its declarations are processed: no Loop Stack entry
\* exists then, and nothing has been recorded of the loops.
MixedTypeRejection ==
    (/\ WellShaped
     /\ SupportedDeclarations
     /\ \E d, e \in Elements(Preamble) : TypeName(d) = "float" /\ TypeName(e) = "double")
    => \/ pc \in {"_process_code", "declarations"} /\ _loop_stack = <<>>
       \/ /\ pc = "raised"
          /\ exc = "mixing of datatypes within a kernel is not supported."
          /\ _loop_stack = <<>>
          /\ _sources = EmptyDict /\ _destinations = EmptyDict /\ _flops = EmptyDict
          /\ floop = None

\* the third declaration is the first of another type than the two before
MixedTypeRejectionWitness ==
    /\ pc = "raised"
    /\ exc = "mixing of datatypes within a kernel is not supported."
    /\ item = 3
    /\ WellShaped /\ SupportedDeclarations
    /\ TypeName(Preamble[1]) = TypeName(Preamble[2])
    /\ TypeName(Preamble[3]) # TypeName(Preamble[1])

(***************************************************************************)
(* Properties of the calls that follow the analysis, checked under Spec.   *)
(***************************************************************************)
\* the statements of main in a program as_code returned
MainBody(program) == program.ast.ext[3].body.block_items

IsCall(x, fname) == IsA(x, "FuncCall") /\ x.name = ID(fname)

\* for (; repeat > 0; repeat--) ...
IsRepeatLoop(x) ==
    IsA(x, "For") /\ x.cond = BinaryOp(">", ID("repeat"), Constant("int", "0"))

\* the declarations of the kernel
KernelDeclarations == SelectSeq(kernel_ast.block_items, LAMBDA d : IsA(d, "Decl"))

\* the loop that ends main in plain mode; in instrumented mode the first
\* statement of the repeat loop, which is the last statement but two
KernelLoop(program) ==
    LET body == MainBody(program) IN
    IF program.type_ = "likwid" THEN body[Len(body) - 2].stmt.block_items[1]
    ELSE Last(body)

\* names with integer values, so that sizes and counters all differ
Valuations ==
    { [x \in {"i", "j", "k", "l", "m", "N", "M"} |->
         CASE x = "i" -> 1 + seed [] x = "j" -> 2 + 3 * seed [] x = "k" -> 5 * seed
           [] x = "l" -> 7 + seed [] x = "m" -> 4 * seed
           [] x = "N" -> 11 + 2 * seed [] x = "M" -> 13 + 5 * seed] : seed \in 1 .. 3 }

\* the value of an integer expression of C
RECURSIVE Eval(_, _)
Eval(e, env) ==
    CASE IsA(e, "ID") -> env[e.name]
      [] IsA(e, "Constant") -> int(e.value)
      [] IsA(e, "BinaryOp") /\ e.op = "+" -> Eval(e.left, env) + Eval(e.right, env)
      [] IsA(e, "BinaryOp") /\ e.op = "-" -> Eval(e.left, env) - Eval(e.right, env)
      [] IsA(e, "BinaryOp") /\ e.op = "*" -> Eval(e.left, env) * Eval(e.right, env)

\* d[from] * ... * d[Len(d)], 1 for none
RECURSIVE Product(_, _, _)
Product(d, from, env) ==
    IF from > Len(d) THEN 1 ELSE Eval(d[from], env) * Product(d, from + 1, env)

\* s[k]*(d[k+1]*...*d[N]) + ... + s[N]
RECURSIVE RowMajor(_, _, _, _)
RowMajor(s, d, k, env) ==
    IF k > Len(s) THEN 0
    ELSE Eval(s[k], env) * Product(d, k + 1, env) + RowMajor(s, d, k + 1, env)

\* the declarations of the kernel with the name of the base of a reference
DeclarationsOf(ref) ==
    SelectSeq(KernelDeclarations, LAMBDA d : d.name = RefBase(ref).name)

\* a reference with as many subscripts as the one declaration of its base
\* has dimensions
FullRank(ref) ==
    /\ Len(DeclarationsOf(ref)) = 1
    /\ Len(Subscripts(ref)) = Len(ArrayDims(DeclarationsOf(ref)[1].type))

\* C3: in a program as_code returns, every reference of the kernel loop with
\* N subscripts s_0..s_{N-1} to an array declared with N sizes d_0..d_{N-1}
\* has become a reference with one subscript on the array itself, whose
\* value is s_0*(d_1*...*d_{N-1}) + ... + s_{N-1}, whatever the values of
\* the counters and of the sizes.
RowMajorFlattening ==
    returned.node = "Program" =>
        LET before == find_array_references(Last(kernel_ast.block_items))
            after == find_array_references(KernelLoop(returned))
        IN  /\ Len(after) = Len(before)
            /\ \A n \in 1 .. Len(before) :
                 FullRank(before[n]) =>
                    /\ IsA(after[n], "ArrayRef")
                    /\ after[n].name = RefBase(before[n])
                    /\ \A env \in Valuations :
                         Eval(after[n].subscript, env)
                           = RowMajor(Subscripts(before[n]),
                                      ArrayDims(DeclarationsOf(before[n])[1].type), 1, env)

\* a program has been returned, in either mode, for a kernel with a
\* reference of three subscripts to an array of three dimensions
RowMajorFlatteningWitness ==
    /\ returned.node = "Program"
    /\ \E ref \in Elements(find_array_references(Last(kernel_ast.block_items))) :
          FullRank(ref) /\ Len(Subscripts(ref)) = 3

\* if (var_false) { dummy(d); } for an array d, dummy(&d) for a scalar
GuardOf(d) ==
    If(ID("var_false"),
       Compound(<<FuncCall(ID("dummy"),
                    ExprList(<<IF IsA(d.type, "ArrayDecl") THEN ID(d.name)
                               ELSE UnaryOp("&", ID(d.name))>>))>>),
       None)

\* the statements of the repeat loop: a loop with the header of the kernel
\* loop, then one guard for each declaration of the kernel
RepeatsKernel(inner) ==
    LET loop == Last(kernel_ast.block_items) IN
    /\ Len(inner) = 1 + Len(KernelDeclarations)
    /\ IsA(inner[1], "For")
    /\ inner[1].init = loop.init /\ inner[1].cond = loop.cond /\ inner[1].next = loop.next
    /\ \A n \in 1 .. Len(KernelDeclarations) : inner[n + 1] = GuardOf(KernelDeclarations[n])

\* C4, as the specification states it: in instrumented mode the statements
\* of the repeat loop hold the region-start call, then the kernel loop, then
\* the region-stop call, and one guard for each declaration.
RegionInsideRepeat ==
    returned.node = "Program" /\ returned.type_ = "likwid" =>
        \E n \in 1 .. Len(MainBody(returned)) :
            /\ IsRepeatLoop(MainBody(returned)[n])
            /\ LET inner == MainBody(returned)[n].stmt.block_items IN
               \E s, l, e \in 1 .. Len(inner) :
                   /\ s < l /\ l < e
                   /\ IsCall(inner[s], "likwid_markerStartRegion")
                   /\ IsA(inner[l], "For")
                   /\ IsCall(inner[e], "likwid_markerStopRegion")
                   /\ Len(inner) = 3 + Len(KernelDeclarations)

\* C4, amended: in instrumented mode main ends with the declaration of
\* repeat, the region-start call, the repeat loop, the region-stop call and
\* likwid_markerClose, in that order; the statements of the repeat loop are
\* the kernel loop and then one guard for each declaration, and no marker
\* call.
RegionAroundRepeat ==
    returned.node = "Program" /\ returned.type_ = "likwid" =>
        LET body == MainBody(returned)
            n == Len(body)
        IN  /\ n >= 5
            /\ IsA(body[n - 4], "Decl") /\ body[n - 4].name = "repeat"
            /\ IsCall(body[n - 3], "likwid_markerStartRegion")
            /\ IsRepeatLoop(body[n - 2])
            /\ IsCall(body[n - 1], "likwid_markerStopRegion")
            /\ IsCall(body[n], "likwid_markerClose")
            /\ \A m \in 1 .. n : m # n - 2 => ~IsRepeatLoop(body[m])
            /\ \A m \in 1 .. n - 4 : ~IsCall(body[m], "likwid_markerStartRegion")
                                    /\ ~IsCall(body[m], "likwid_markerStopRegion")
            /\ RepeatsKernel(body[n - 2].stmt.block_items)

\* an instrumented program has been returned for a kernel that declares an
\* array and a scalar
RegionAroundRepeatWitness ==
    /\ returned.node = "Program" /\ returned.type_ = "likwid"
    /\ Len(KernelDeclarations) = 2
    /\ IsA(KernelDeclarations[1].type, "ArrayDecl")
    /\ ~IsA(KernelDeclarations[2].type, "ArrayDecl")

\* the names in an expression
RECURSIVE Names(_)
Names(e) ==
    CASE IsA(e, "ID") -> {e.name}
      [] IsA(e, "BinaryOp") -> Names(e.left) \cup Names(e.right)
      [] IsA(e, "UnaryOp") -> Names(e.expr)
      [] OTHER -> {}

\* the loops of a nest, outermost first
RECURSIVE Loops(_)
Loops(stmt) ==
    IF IsA(stmt, "For") THEN <<stmt>> \o Loops(stmt.stmt)
    ELSE IF IsA(stmt, "Compound") /\ Len(stmt.block_items) = 1
    THEN Loops(stmt.block_items[1])
    ELSE <<>>

\* the Symbolic Constants of the kernel: the names in the sizes of its
\* arrays and in the bounds of its loops
SymbolicConstants ==
    UNION { UNION { Names(size) : size \in Elements(ArrayDims(d.type)) } :
              d \in Elements(KernelDeclarations) }
    \cup UNION { Names(loop.cond.right) :
                   loop \in Elements(Loops(Last(kernel_ast.block_items))) }

\* const int name = atoi(argv[k]);
CliDeclaration(name, k) ==
    Decl(name, <<"const">>, <<>>, TypeDecl(name, <<"const">>, IdentifierType(<<"int">>)),
         FuncCall(ID("atoi"),
                  ExprList(<<ArrayRef(ID("argv"), Constant("int", IntLiterals[k]))>>)))

\* the statements of main that declare a constant from the command line
CliDeclarations(program) ==
    SelectSeq(MainBody(program),
              LAMBDA d : /\ IsA(d, "Decl") /\ d.quals = <<"const">>
                         /\ d.name # "repeat" /\ IsCall(d.init, "atoi"))

\* the subscript of argv a declaration reads
CliIndex(d) == int(d.init.args.exprs[1].subscript.value)

\* C5, as the specification states it: in a program as_code returns, every
\* Symbolic Constant of the kernel is declared as an integer read from
\* argv[k], and the subscripts k are pairwise distinct and are 1, 2, ...
ConstantsFromCommandLine ==
    returned.node = "Program" =>
        LET decls == CliDeclarations(returned) IN
        /\ \A c \in SymbolicConstants : \E n \in 1 .. Len(decls) : decls[n].name = c
        /\ \A n, m \in 1 .. Len(decls) : CliIndex(decls[n]) = CliIndex(decls[m]) => n = m
        /\ { CliIndex(d) : d \in Elements(decls) } = 1 .. Len(decls)

\* C5, amended: the program as_code returns declares the constants of the
\* Constant Binding and no other: the n-th constant of the binding, in the
\* order the binding iterates, is read from argv[n], and its declaration
\* stands before those of the constants that precede it; in instrumented
\* mode repeat is read from the argument after the last constant.
BoundConstantsFromCommandLine ==
    [][pc = "done" /\ UNCHANGED _constants /\ returned'.node = "Program" =>
          LET decls == CliDeclarations(returned') IN
          /\ Len(decls) = Len(_constants)
          /\ \A n \in 1 .. Len(_constants) :
               decls[Len(decls) + 1 - n] = CliDeclaration(_constants[n][1], n)
          /\ returned'.type_ = "likwid" =>
               \E d \in Elements(MainBody(returned')) :
                   /\ IsA(d, "Decl") /\ d.name = "repeat"
                   /\ CliIndex(d) = Len(_constants) + 1]_vars

\* a program that reads two constants from the command line
BoundConstantsFromCommandLineWitness ==
    /\ returned.node = "Program"
    /\ Len(CliDeclarations(returned)) = 2
    /\ CliIndex(CliDeclarations(returned)[1]) = 2
    /\ SymbolicConstants = {"N", "M"}

\* the Constant Binding a program was made under, as far as as_code reads
\* it: the names, in the order of the subscripts of argv they are read from
BindingOf(program) ==
    LET decls == CliDeclarations(program)
    IN  [n \in 1 .. Len(decls) |-> <<decls[Len(decls) + 1 - n].name, 1>>]

\* C9: once the analysis has completed, no call changes the Loop Stack, the
\* Variables, the Access Patterns, the Operation Tally, the datatype or the
\* parsed tree; and a program as_code has returned remains, whatever calls
\* follow, the program a further call of as_code returns in the same mode
\* under the same binding.
WriteOnceReadMany ==
    /\ [][pc = "done" => UNCHANGED <<kernel_ast, analysis, pc, walk, exc>>]_vars
    /\ [](returned.node = "Program" =>
            LET again == as_code(kernel_ast, BindingOf(returned), returned.type_)
            IN  again.node = "Program" /\ again.ast = returned.ast)

\* a program has been returned for a kernel with an array of two dimensions,
\* still declared so in the tree of the kernel, and with two constants bound
WriteOnceReadManyWitness ==
    /\ returned.node = "Program"
    /\ Len(_constants) = 2
    /\ \E d \in Elements(KernelDeclarations) :
          IsA(d.type, "ArrayDecl") /\ IsA(d.type.type, "ArrayDecl")

(***************************************************************************)
(* Further properties of the analysis, checked under AnalysisSpec.         *)
(***************************************************************************)
Max(a, b) == IF a > b THEN a ELSE b

\* the nesting depth of the for constructs of a statement
RECURSIVE ForDepth(_)
ForDepth(stmt) ==
    CASE IsA(stmt, "For") -> 1 + ForDepth(stmt.stmt)
      [] IsA(stmt, "Compound") ->
           LET RECURSIVE Deepest(_)
               Deepest(n) == IF n = 0 THEN 0
                             ELSE Max(ForDepth(stmt.block_items[n]), Deepest(n - 1))
           IN  Deepest(Len(stmt.block_items))
      [] IsA(stmt, "If") -> Max(ForDepth(stmt.iftrue), ForDepth(stmt.iffalse))
      [] OTHER -> 0

\* C12: after a successful analysis the Loop Stack is not empty, it has as
\* many entries as the for constructs of the kernel are deep, and its n-th
\* entry is that of the n-th loop from the outside, whether a loop is the
\* statement of the loop around it or the only statement of its block.
LoopStackShape ==
    pc = "done" =>
        LET loops == Loops(Last(kernel_ast.block_items)) IN
        /\ Len(_loop_stack) >= 1
        /\ Len(_loop_stack) = ForDepth(Last(kernel_ast.block_items))
        /\ Len(_loop_stack) = Len(loops)
        /\ \A n \in 1 .. Len(loops) : _loop_stack[n][1] = loops[n].init.decls[1].name

\* three loops, the second the only statement of the block of the first
LoopStackShapeWitness ==
    /\ pc = "done"
    /\ Len(_loop_stack) = 3
    /\ IsA(Last(kernel_ast.block_items).stmt, "Compound")
    /\ _loop_stack[1][1] # _loop_stack[2][1] /\ _loop_stack[2][1] # _loop_stack[3][1]

(***************************************************************************)
(* Further properties of the calls that follow the analysis, checked under *)
(* Spec.                                                                   *)
(***************************************************************************)
\* the names the kernel declares
DeclaredNames == { d.name : d \in Elements(KernelDeclarations) }

\* for (int c = 0; c < d_0*...*d_{N-1}; ++c) name[c] = 0.23; for a counter c
\* that is no declared name
IsArrayInitialization(x, d) ==
    /\ IsA(x, "For") /\ IsA(x.init, "DeclList") /\ Len(x.init.decls) = 1
    /\ LET c == x.init.decls[1].name IN
       /\ c \notin DeclaredNames
       /\ x.init.decls[1].init = Constant("int", "0")
       /\ IsA(x.cond, "BinaryOp") /\ x.cond.op = "<" /\ x.cond.left = ID(c)
       /\ \A env \in Valuations :
            Eval(x.cond.right, env) = Product(ArrayDims(d.type), 1, env)
       /\ x.next = UnaryOp("++", ID(c))
       /\ x.stmt = Assignment("=", ArrayRef(ID(d.name), ID(c)), Constant("float", "0.23"))

\* name = 0.23;
IsScalarInitialization(x, d) ==
    x = Assignment("=", ID(d.name), Constant("float", "0.23"))

\* where the kernel loop, or the repeat loop around it, stands in main
LoopPosition(program) ==
    IF program.type_ = "likwid" THEN Len(MainBody(program)) - 2
    ELSE Len(MainBody(program))

\* C13: in main, every Variable of the kernel (declared once) is declared
\* in one place; the statement after its declaration initializes it: an
\* array by a loop that assigns the literal to the flat indices from 0 to
\* the product of its sizes, a scalar by one assignment; the statement after
\* that is its guard; and all three stand before the kernel loop.
InitializationOrder ==
    returned.node = "Program" =>
        LET body == MainBody(returned) IN
        /\ IsA(body[LoopPosition(returned)], "For")
        /\ \A d \in Elements(KernelDeclarations) :
             Len(DeclarationsOf(ID(d.name))) = 1 =>
                /\ Cardinality({ p \in 1 .. Len(body) :
                                   IsA(body[p], "Decl") /\ body[p].name = d.name }) = 1
                /\ \E p \in 1 .. Len(body) - 2 :
                     /\ IsA(body[p], "Decl") /\ body[p].name = d.name
                     /\ IF IsA(d.type, "ArrayDecl")
                        THEN IsArrayInitialization(body[p + 1], d)
                        ELSE IsScalarInitialization(body[p + 1], d)
                     /\ body[p + 2] = GuardOf(d)
                     /\ p + 2 < LoopPosition(returned)

\* a program for a kernel that declares an array, a scalar and an array of
\* two dimensions
InitializationOrderWitness ==
    /\ returned.node = "Program"
    /\ Len(KernelDeclarations) = 3
    /\ Len(ArrayDims(KernelDeclarations[1].type)) = 1
    /\ Len(ArrayDims(KernelDeclarations[2].type)) = 0
    /\ Len(ArrayDims(KernelDeclarations[3].type)) = 2

\* the declarations of main with the name of a declaration of the kernel
MainDeclarations(d) ==
    SelectSeq(MainBody(returned), LAMBDA x : IsA(x, "Decl") /\ x.name = d.name)

\* aligned_malloc(sizeof(T) * E, 32) with E the product of the sizes of d
IsAllocation(call, d) ==
    /\ IsA(call, "FuncCall") /\ call.name = ID("aligned_malloc")
    /\ Len(call.args.exprs) = 2
    /\ LET size == call.args.exprs[1] IN
       /\ IsA(size, "BinaryOp") /\ size.op = "*"
       /\ size.left = UnaryOp("sizeof", Typename(NoName, <<>>,
                          TypeDecl(NoName, <<>>, ElementType(d.type).type)))
       /\ \A env \in Valuations :
            Eval(size.right, env) = Product(ArrayDims(d.type), 1, env)
    /\ call.args.exprs[2] = Constant("int", "32")

Assignments ==
    LET loops == Loops(Last(kernel_ast.block_items))
        inner == Last(loops).stmt
    IN  IF IsA(inner, "Compound") THEN inner.block_items ELSE <<inner>>

\* what the assignments list[1 .. n] contribute to the count of op: the
\* binary operations of their right-hand sides and their compound operators
RECURSIVE Tally(_, _, _)
Tally(list, n, op) ==
    IF n = 0 THEN 0
    ELSE Tally(list, n - 1, op) + Operations(list[n].rvalue, op)
         + (IF list[n].op # "=" /\ CompoundSymbol(list[n].op) = op THEN 1 ELSE 0)

\* the operators met on the right-hand sides and in the compound assignments
TallySymbols ==
    UNION { Operators(Assignments[n].rvalue)
            \cup (IF Assignments[n].op # "=" THEN {CompoundSymbol(Assignments[n].op)} ELSE {})
            : n \in 1 .. Len(Assignments) }

\* whether an expression holds a binary operation inside a subscript
RECURSIVE SubscriptOperation(_)
SubscriptOperation(expr) ==
    CASE IsA(expr, "ArrayRef") ->
           IsA(expr.subscript, "BinaryOp") \/ SubscriptOperation(expr.name)
      [] IsA(expr, "BinaryOp") ->
           SubscriptOperation(expr.left) \/ SubscriptOperation(expr.right)
      [] OTHER -> FALSE

\* C15: after a successful analysis the Operation Tally has an entry for
\* exactly the operators that occur, and the count of each is the number of
\* binary operations with it on the right-hand sides, those inside
\* subscripts left out, plus the number of compound assignments with it.
TallyCounts ==
    pc = "done" =>
        /\ DOMAIN _flops = TallySymbols
        /\ \A op \in TallySymbols : _flops[op] = Tally(Assignments, Len(Assignments), op)
        /\ \A op \in DOMAIN _flops : _flops[op] >= 1

\* an operator counted twice or more, in a kernel with a binary operation
\* in a subscript of a right-hand side
TallyCountsWitness ==
    /\ pc = "done"
    /\ \E op \in DOMAIN _flops : _flops[op] >= 2
    /\ \E n \in 1 .. Len(Assignments) : SubscriptOperation(Assignments[n].rvalue)

(***************************************************************************)
(* The program and the values of the Constant Binding, checked under Spec. *)
(***************************************************************************)
\* the binding with the names of a binding, in its order, each bound to 1
Unit(constants) == [n \in 1 .. Len(constants) |-> <<constants[n][1], 1>>]

\* C16: the program as_code returns under a binding is the one it returns,
\* in the same mode, for the same kernel under the binding of the same names
\* in the same order with every value 1; hence two bindings of the same
\* names in the same order give the same program, whatever their values.
ValueIndependence ==
    [][pc = "done" /\ returned' # returned /\ returned'.node = "Program" =>
          \E result \in {as_code(kernel_ast, Unit(_constants), returned'.type_)} :
              /\ result.node = "Program"
              /\ result.ast = returned'.ast
              /\ result.includes = returned'.includes]_vars

\* a program in instrumented mode returned under a binding of two constants
\* with different values
ValueIndependenceWitness ==
    /\ returned.node = "Program" /\ returned.type_ = "likwid"
    /\ Len(CliDeclarations(returned)) = 2
    /\ Len(_constants) = 2
    /\ _constants[1][1] = CliDeclarations(returned)[2].name
    /\ _constants[2][1] = CliDeclarations(returned)[1].name
    /\ _constants[1][2] # _constants[2][2]

(***************************************************************************)
(* The names and the steps the analysis records, checked under             *)
(* AnalysisSpec.                                                           *)
(***************************************************************************)
\* C17: after a successful analysis every key of the sources and of the
\* destinations is the name of a declared Variable.
DeclaredAccesses ==
    pc = "done" => (DOMAIN _sources \cup DOMAIN _destinations) \subseteq DOMAIN _variables

\* C18: after a successful analysis every entry of the Loop Stack has a
\* step of at least 1.
PositiveSteps ==
    pc = "done" => \A n \in 1 .. Len(_loop_stack) : _loop_stack[n][4] >= 1
====
